---- MODULE Spec2Model ----
(***************************************************************************)
(* A model of orrery.py: the journal watcher (monitor_logs), the system    *)
(* model builder (process_log_entry), position resolution                  *)
(* (get_body_position) and the Tk event loop that owns the view state.     *)
(*                                                                         *)
(* Units.  Pixels and the pan offset are integers.  The canvas has an even *)
(* width and height, so winfo_width() / 2 is exact.  Angles arrive in      *)
(* degrees and are stored in radians; the model counts radians in units of *)
(* pi/2, so x * pi / 180 is x \div 90 and is exact on multiples of 90.     *)
(* Distances are counted in units of 1e9 m, the inverse of scale_factor.   *)
(***************************************************************************)
EXTENDS Integers, Sequences, FiniteSets, TLC

\* ------------------------------------------------------------- bounds
MaxFsOps == 4        \* journal-directory operations (create, append, remove)
MaxEvents == 3       \* events delivered to process_log_entry in ViewSpec
MaxDepth == 4        \* interpreter recursion limit, in frames
MaxPointer == 1      \* pointer positions (0, 0) .. (MaxPointer, 2 * MaxPointer)
MaxInputs == 2       \* pointer motions and list selections
MaxQueue == 2        \* callbacks waiting in the event loop when an event arrives
MaxTime == 1         \* animation ticks
MaxZoom == 2         \* largest zoom factor
CanvasHalfWidth == 4
CanvasHalfHeight == 3

winfo_width == 2 * CanvasHalfWidth
winfo_height == 2 * CanvasHalfHeight

\* ------------------------------------------------------------- JSON values
\* A JSON value is a tagged pair; an object is a record of JSON values.
Num(n) == <<"num", n>>
Str(s) == <<"str", s>>
Lst(s) == <<"list", s>>
Obj(r) == <<"obj", r>>
\* An ancestry descriptor {"Star": 1} of a Parents list.
Anc(kind, id) == <<kind, id>>

\* The Scan events of the journal used as inputs.
StarA == [event |-> Str("Scan"), BodyID |-> Num(1), BodyName |-> Str("Star A"),
          StarType |-> Str("K"), DistanceFromArrivalLS |-> Num(0)]
PlanetB == [event |-> Str("Scan"), BodyID |-> Num(2), BodyName |-> Str("Planet B"),
            Parents |-> Lst(<<Anc("Star", 1)>>), SemiMajorAxis |-> Num(2),
            OrbitalPeriod |-> Num(4), MeanAnomaly |-> Num(90),
            DistanceFromArrivalLS |-> Num(10)]
\* a star scanned without BodyID: recorded under identifier 0
StarZero == [event |-> Str("Scan"), BodyName |-> Str("Star Z"), StarType |-> Str("G")]
\* a moon: its nearest ancestor is planet 2, then star 1
MoonC == [event |-> Str("Scan"), BodyID |-> Num(3), BodyName |-> Str("Moon C"),
          Parents |-> Lst(<<Anc("Planet", 2), Anc("Star", 1)>>),
          SemiMajorAxis |-> Num(1), OrbitalPeriod |-> Num(0)]
\* identifier 1 rescanned as a planet of body 0
PlanetOfZero == [event |-> Str("Scan"), BodyID |-> Num(1), BodyName |-> Str("Planet A"),
                 Parents |-> Lst(<<Anc("Star", 0)>>), SemiMajorAxis |-> Str("3"),
                 OrbitalPeriod |-> Num(4)]
\* a body naming itself as parent
SelfParent == [event |-> Str("Scan"), BodyID |-> Num(2), BodyName |-> Str("Loop"),
               Parents |-> Lst(<<Anc("Planet", 2)>>), SemiMajorAxis |-> Num(1)]
\* a field that float() cannot convert
BadFloat == [event |-> Str("Scan"), BodyID |-> Num(3), BodyName |-> Str("Bad"),
             StarType |-> Str("M"), SemiMajorAxis |-> Str("abc")]
\* a scan without BodyName
NoName == [event |-> Str("Scan"), BodyID |-> Num(3), StarType |-> Str("K")]
\* another event of the journal
FSDJump == [event |-> Str("FSDJump")]
\* an object without the event discriminator
NoEvent == [timestamp |-> Str("t")]

\* A line of a journal file: its text is JSON of some value, or is not JSON.
JsonLine(v) == [json |-> TRUE, value |-> v]
NotJson == [json |-> FALSE, value |-> Str("not valid json")]

\* The lines the game appends to a journal file.
Lines == {NotJson, JsonLine(Num(5)), JsonLine(Obj(NoEvent)), JsonLine(Obj(FSDJump)),
          JsonLine(Obj(StarA)), JsonLine(Obj(PlanetB)), JsonLine(Obj(PlanetOfZero)),
          JsonLine(Obj(BadFloat)), JsonLine(Obj(NoName))}

\* The journal files of the directory.
Files == {"Journal.1.log", "Journal.2.log"}

\* Optional[int]
None == <<>>
Some(n) == <<n>>

MonitorThread == "monitor_thread"

VARIABLES
    \* the journal directory (the environment of monitor_logs)
    exists,          \* the journal files present
    mtime,           \* file -> modification time
    content,         \* file -> the lines written to it
    fs_ops,          \* directory operations so far
    \* SystemOrrery
    bodies,          \* self.bodies: a dict, as its records in insertion order
    stars,           \* self.stars
    running,         \* self.running
    after_queue,     \* the callbacks queued with self.after(0, ...)
    tree,            \* the rows of self.tree, in insertion order
    center_x, center_y, drag_start_x, drag_start_y, is_dragging, focused_body,
    zoom, animation_time,
    \* the monitor thread
    pc,              \* its position in monitor_logs
    newest_file,     \* the local newest_file
    start,           \* the offset the open file was sought to
    position,        \* the read offset of the open file, in lines
    \* history
    handed,          \* the values passed to process_log_entry, in order
    writers,         \* the threads that have written self.bodies or self.stars
    last_call,       \* the latest get_body_position call, while nothing changed since
    late,            \* the file operations of the monitor thread since the flag was unset
    inputs           \* pointer motions and list selections so far

fs == <<exists, mtime, content, fs_ops>>
system == <<bodies, stars>>
view == <<center_x, center_y, zoom, animation_time>>
dragging == <<drag_start_x, drag_start_y, is_dragging, inputs>>
monitor == <<pc, newest_file, start, position, late>>
vars == <<exists, mtime, content, fs_ops, bodies, stars, running, after_queue, tree,
          center_x, center_y, drag_start_x, drag_start_y, is_dragging, focused_body,
          zoom, animation_time, pc, newest_file, start, position, handed, writers,
          last_call, late, inputs>>

\* ------------------------------------------------------------- dict helpers
Keys(d) == {d[i].body_id : i \in 1..Len(d)}
IndexOf(d, k) == CHOOSE i \in 1..Len(d) : d[i].body_id = k
\* self.bodies.get(k) for a key that is present
Lookup(d, k) == d[IndexOf(d, k)]
\* a mapping that keeps the old record beside the new one
DictSetKeepsOld(d, k, v) == Append(d, v)
\* self.bodies[k] = v: an existing key keeps its place, a new key goes last
DictSet(d, k, v) == IF k \in Keys(d) THEN [d EXCEPT ![IndexOf(d, k)] = v] ELSE Append(d, v)

\* data.get(key, default)
Get(data, key, default) == IF key \in DOMAIN data THEN data[key] ELSE default

\* float(v): a number, or a string that spells one; anything else raises
StrFloat == [s \in {"3"} |-> 3]
FloatRaises(v) == ~(v[1] = "num" \/ (v[1] = "str" /\ v[2] \in DOMAIN StrFloat))
Float(v) == IF v[1] = "num" THEN v[2] ELSE StrFloat[v[2]]

\* x * math.pi / 180.0, in units of pi/2
DegToRad(x) == x \div 90

get_parent_id(parents) == IF Len(parents[2]) = 0 THEN None ELSE Some(parents[2][1][2])

MassKey(data) == IF "StarType" \in DOMAIN data THEN "StellarMass" ELSE "MassEM"
FloatFields(data) == {"SemiMajorAxis", "Eccentricity", "OrbitalInclination",
                      "OrbitalPeriod", "AscendingNode", "MeanAnomaly", "Radius",
                      MassKey(data), "DistanceFromArrivalLS", "SurfaceTemperature",
                      "SurfaceGravity"}

\* whether the construction of the record raises inside the try block
BuildRaises(data) ==
    \/ "BodyName" \notin DOMAIN data
    \/ \E k \in FloatFields(data) : FloatRaises(Get(data, k, Num(0)))

F(data, key) == Float(Get(data, key, Num(0)))

\* the farthest ancestor instead of the nearest
ParentOfFarthest(data) ==
    LET parents == Get(data, "Parents", Lst(<<>>))[2]
    IN IF parents = <<>> THEN None ELSE Some(parents[Len(parents)][2])
\* line 211: get_parent_id(data.get('Parents', []))
ParentOf(data) == get_parent_id(Get(data, "Parents", Lst(<<>>)))

CelestialBody(data) ==
    LET is_star == "StarType" \in DOMAIN data IN
    [body_id |-> Get(data, "BodyID", Num(0))[2],
     name |-> data["BodyName"][2],
     type |-> IF is_star THEN "Star" ELSE "Planet",
     parent_id |-> ParentOf(data),
     semi_major_axis |-> F(data, "SemiMajorAxis"),
     eccentricity |-> F(data, "Eccentricity"),
     orbital_inclination |-> DegToRad(F(data, "OrbitalInclination")),
     orbital_period |-> F(data, "OrbitalPeriod"),
     ascending_node |-> DegToRad(F(data, "AscendingNode")),
     mean_anomaly |-> DegToRad(F(data, "MeanAnomaly")),
     radius |-> F(data, "Radius"),
     mass |-> F(data, MassKey(data)),
     distance_from_arrival |-> F(data, "DistanceFromArrivalLS"),
     planet_class |-> Get(data, "PlanetClass", Str(""))[2],
     surface_temp |-> F(data, "SurfaceTemperature"),
     surface_gravity |-> F(data, "SurfaceGravity"),
     atmosphere_type |-> Get(data, "AtmosphereType", Str(""))[2],
     terraform_state |-> Get(data, "TerraformState", Str(""))[2],
     is_landable |-> Get(data, "Landable", <<"bool", FALSE>>)[2]]

\* ------------------------------------------------------------- positions
\* cos and sin of q * pi/2
Cos4(q) == CASE q % 4 = 0 -> 1 [] q % 4 = 2 -> -1 [] OTHER -> 0
Sin4(q) == CASE q % 4 = 1 -> 1 [] q % 4 = 3 -> -1 [] OTHER -> 0

\* a period of 0 taken for the period of one revolution in four ticks
calculate_position_period_default(body, t, z) ==
    LET period == IF body.orbital_period = 0 THEN 4 ELSE body.orbital_period
        angle == body.mean_anomaly + (4 * t) \div period
        r == body.semi_major_axis * z
    IN <<r * Cos4(angle), r * Sin4(angle)>>

\* The offset of a body from its parent at time t under zoom z: a circular orbit
\* of radius semi_major_axis * scale_factor * zoom, at angle M + 2 pi t / T, and
\* at angle M when the period is 0.
calculate_position(body, t, z) ==
    LET angle == IF body.orbital_period = 0
                 THEN body.mean_anomaly
                 ELSE body.mean_anomaly + (4 * t) \div body.orbital_period
        r == body.semi_major_axis * z
    IN <<r * Cos4(angle), r * Sin4(angle)>>

\* What a call returns: coordinates, or RecursionError raised out of it.
Returned(x, y) == [ok |-> TRUE, error |-> "", x |-> x, y |-> y]
Raised(error) == [ok |-> FALSE, error |-> error, x |-> 0, y |-> 0]
RecursionError == Raised("RecursionError")

\* get_body_position(body) on the mapping d with pan offset (cx, cy), zoom z and
\* animation time t, entered at recursion depth `depth`.
RECURSIVE get_body_position(_, _, _, _, _, _, _)
\* the parent taken to sit at the canvas centre: its own parents are not resolved
get_body_position_one_level(d, body, cx, cy, z, t, depth) ==
    IF depth > MaxDepth THEN RecursionError
    ELSE IF body.parent_id = None \/ body.parent_id = Some(0)
    THEN Returned(winfo_width \div 2 + cx, winfo_height \div 2 + cy)
    ELSE IF body.parent_id[1] \notin Keys(d)
    THEN Returned(winfo_width \div 2 + cx, winfo_height \div 2 + cy)
    ELSE LET offset == calculate_position(body, t, z)
         IN Returned(winfo_width \div 2 + cx + offset[1],
                     winfo_height \div 2 + cy + offset[2])
\* self.bodies[body.parent_id] instead of .get: KeyError on a missing parent
get_body_position_key_error(d, body, cx, cy, z, t, depth) ==
    IF depth > MaxDepth THEN RecursionError
    ELSE IF body.parent_id = None \/ body.parent_id = Some(0)
    THEN Returned(winfo_width \div 2 + cx, winfo_height \div 2 + cy)
    ELSE IF body.parent_id[1] \notin Keys(d)
    THEN Raised("KeyError")
    ELSE LET parent == get_body_position(d, Lookup(d, body.parent_id[1]),
                                         cx, cy, z, t, depth + 1)
             offset == calculate_position(body, t, z)
         IN IF ~parent.ok THEN parent
            ELSE Returned(parent.x + offset[1], parent.y + offset[2])
get_body_position(d, body, cx, cy, z, t, depth) ==
    IF depth > MaxDepth THEN RecursionError
    ELSE IF body.parent_id = None \/ body.parent_id = Some(0)
    THEN Returned(winfo_width \div 2 + cx, winfo_height \div 2 + cy)
    ELSE IF body.parent_id[1] \notin Keys(d)
    THEN Returned(winfo_width \div 2 + cx, winfo_height \div 2 + cy)
    ELSE LET parent == get_body_position(d, Lookup(d, body.parent_id[1]),
                                         cx, cy, z, t, depth + 1)
             offset == calculate_position(body, t, z)
         IN IF ~parent.ok THEN parent
            ELSE Returned(parent.x + offset[1], parent.y + offset[2])

\* the call made by the event loop in the current state
BodyPosition(body) ==
    get_body_position(bodies, body, center_x, center_y, zoom, animation_time, 1)

\* ------------------------------------------------------------- the body list
\* the sort keys: lambda x: x.body_id and lambda x: x.semi_major_axis
KeyOf(b, key) == IF key = "body_id" THEN b.body_id ELSE b.semi_major_axis
\* sorted(seq, key=key): a stable insertion sort
RECURSIVE InsertSorted(_, _, _)
InsertSorted(sorted, b, key) ==
    IF sorted = <<>> THEN <<b>>
    ELSE IF KeyOf(b, key) < KeyOf(Head(sorted), key) THEN <<b>> \o sorted
    ELSE <<Head(sorted)>> \o InsertSorted(Tail(sorted), b, key)
RECURSIVE Sorted(_, _)
Sorted(seq, key) ==
    IF seq = <<>> THEN <<>>
    ELSE InsertSorted(Sorted(SubSeq(seq, 1, Len(seq) - 1), key), seq[Len(seq)], key)

GroupKey(b) == IF b.parent_id = None THEN -1 ELSE b.parent_id[1]
\* the keys of parent_groups, in the order they were first inserted
RECURSIVE GroupKeys(_)
GroupKeys(d) ==
    IF d = <<>> THEN <<>>
    ELSE LET front == GroupKeys(SubSeq(d, 1, Len(d) - 1))
             k == GroupKey(d[Len(d)])
         IN IF \E i \in 1..Len(front) : front[i] = k THEN front ELSE Append(front, k)
Group(d, k) == SelectSeq(d, LAMBDA b : GroupKey(b) = k)

\* the calls of add_body_to_tree made by update_body_list, in order
RECURSIVE ChildRows(_, _)
ChildRows(d, keys) ==
    IF keys = <<>> THEN <<>>
    ELSE (IF Head(keys) = -1 THEN <<>> ELSE Sorted(Group(d, Head(keys)), "semi_major_axis"))
         \o ChildRows(d, Tail(keys))
InsertCalls(d) == Sorted(Group(d, -1), "body_id") \o ChildRows(d, GroupKeys(d))

\* A row of the tree: iid is str(body_id), parent is "" (None) or str(parent_id).
Row(b) == [iid |-> b.body_id, parent |-> b.parent_id]
Iids(t) == {t[i].iid : i \in 1..Len(t)}
\* tree.insert raises TclError when the parent item is not in the tree; the
\* exception leaves update_body_list with the rows inserted so far
RECURSIVE InsertAll(_, _)
InsertAll(t, calls) ==
    IF calls = <<>> THEN t
    ELSE LET r == Row(Head(calls)) IN
         IF r.parent # None /\ r.parent[1] \notin Iids(t) THEN t
         ELSE InsertAll(Append(t, r), Tail(calls))

update_body_list == tree' = InsertAll(<<>>, InsertCalls(bodies))

\* ------------------------------------------------------------- construction
NoFile == ""

Init ==
    /\ exists = {}
    /\ mtime = [f \in Files |-> 0]
    /\ content = [f \in Files |-> <<>>]
    /\ fs_ops = 0
    /\ bodies = <<>>
    /\ stars = <<>>
    /\ running = TRUE
    /\ after_queue = <<>>
    /\ tree = <<>>
    /\ center_x = 0
    /\ center_y = 0
    /\ drag_start_x = 0
    /\ drag_start_y = 0
    /\ is_dragging = FALSE
    /\ focused_body = None
    /\ zoom = 1
    /\ animation_time = 0
    /\ pc = "loop"
    /\ newest_file = NoFile
    /\ start = 0
    /\ position = 0
    /\ handed = <<>>
    /\ writers = {}
    /\ last_call = <<>>
    /\ late = <<>>
    /\ inputs = 0

\* ------------------------------------------------------------- the game
\* The game creates a journal file, appends a line to one, or a file is removed.
CreateFile(f) ==
    /\ fs_ops < MaxFsOps
    /\ f \notin exists
    /\ mtime[f] = 0
    /\ exists' = exists \cup {f}
    /\ mtime' = [mtime EXCEPT ![f] = fs_ops + 1]
    /\ fs_ops' = fs_ops + 1
    /\ UNCHANGED <<content, system, running, after_queue, tree, view, dragging,
                   focused_body, monitor, handed, writers, last_call>>

AppendLine(f, line) ==
    /\ fs_ops < MaxFsOps
    /\ f \in exists
    /\ content' = [content EXCEPT ![f] = Append(@, line)]
    /\ mtime' = [mtime EXCEPT ![f] = fs_ops + 1]
    /\ fs_ops' = fs_ops + 1
    /\ UNCHANGED <<exists, system, running, after_queue, tree, view, dragging,
                   focused_body, monitor, handed, writers, last_call>>

RemoveFile(f) ==
    /\ fs_ops < MaxFsOps
    /\ f \in exists
    /\ exists' = exists \ {f}
    /\ fs_ops' = fs_ops + 1
    /\ UNCHANGED <<mtime, content, system, running, after_queue, tree, view, dragging,
                   focused_body, monitor, handed, writers, last_call>>

\* ------------------------------------------------------------- process_log_entry
\* data['event'] raises: data is not a dict (TypeError) or has no such key (KeyError)
EventRaises(v) == v[1] # "obj" \/ "event" \notin DOMAIN v[2]

\* the star recorded before its record is built
process_log_entry_star_first(v, thread) ==
    LET data == v[2]
        is_star == "StarType" \in DOMAIN data
        scan == data.event = Str("Scan")
        built == scan /\ ~BuildRaises(data)
        body == CelestialBody(data)
    IN /\ bodies' = IF built THEN DictSet(bodies, body.body_id, body) ELSE bodies
       /\ stars' = IF scan /\ is_star
                   THEN Append(stars, Get(data, "BodyID", Num(0))[2]) ELSE stars
       /\ writers' = IF scan THEN writers \cup {thread} ELSE writers
       /\ last_call' = IF built THEN <<>> ELSE last_call
       /\ after_queue' = after_queue \o <<"draw_system", "update_body_list">>

\* process_log_entry(data), called in `thread`, for a call that returns
process_log_entry(v, thread) ==
    LET data == v[2]
        is_star == "StarType" \in DOMAIN data
        built == data.event = Str("Scan") /\ ~BuildRaises(data)
        body == CelestialBody(data)
    IN /\ bodies' = IF built THEN DictSet(bodies, body.body_id, body) ELSE bodies
       /\ stars' = IF built /\ is_star THEN Append(stars, body.body_id) ELSE stars
       /\ writers' = IF built THEN writers \cup {thread} ELSE writers
       /\ last_call' = IF built THEN <<>> ELSE last_call
       /\ after_queue' = after_queue \o <<"draw_system", "update_body_list">>

\* ------------------------------------------------------------- monitor_logs
\* get_newest_file(directory): the file of latest mtime (any of them on a tie),
\* None when there is no journal file
get_newest_file ==
    IF exists = {} THEN {NoFile}
    ELSE {f \in exists : \A g \in exists : mtime[g] <= mtime[f]}

\* line 243: while self.running
MonitorLoop ==
    /\ pc = "loop"
    /\ pc' = IF running THEN "list" ELSE "done"
    /\ UNCHANGED <<fs, system, running, after_queue, tree, view, dragging, focused_body,
                   newest_file, start, position, handed, writers, last_call, late>>

\* lines 244-245: newest_file = self.get_newest_file(directory); without a file
\* the thread sleeps a second (line 262) and loops
MonitorList ==
    /\ pc = "list"
    /\ \E f \in get_newest_file :
          /\ newest_file' = f
          /\ pc' = IF f = NoFile THEN "loop" ELSE "open"
    /\ UNCHANGED <<fs, system, running, after_queue, tree, view, dragging, focused_body,
                   start, position, handed, writers, last_call, late>>

\* lines 248-249: open and seek to the end; FileNotFoundError (lines 260-262)
\* when the file has gone since it was listed
MonitorOpen ==
    /\ pc = "open"
    /\ IF newest_file \in exists
       THEN /\ start' = Len(content[newest_file])
            /\ position' = Len(content[newest_file])
            /\ late' = IF running THEN late ELSE Append(late, "open")
            /\ pc' = "tail"
       ELSE /\ pc' = "loop"
            /\ UNCHANGED <<start, position, late>>
    /\ UNCHANGED <<fs, system, running, after_queue, tree, view, dragging, focused_body,
                   newest_file, handed, writers, last_call>>

\* an inner loop that does not test the flag
MonitorTailIgnoresFlag ==
    /\ pc = "tail"
    /\ pc' = "read"
    /\ UNCHANGED <<fs, system, running, after_queue, tree, view, dragging, focused_body,
                   newest_file, start, position, handed, writers, last_call, late>>

\* line 250: while self.running; when it is unset the file is closed and the
\* thread sleeps a second (line 262) before the outer test
MonitorTail ==
    /\ pc = "tail"
    /\ pc' = IF running THEN "read" ELSE "loop"
    /\ UNCHANGED <<fs, system, running, after_queue, tree, view, dragging, focused_body,
                   newest_file, start, position, handed, writers, last_call, late>>

\* the exception of json.loads not caught: it ends the thread
JSONDecodeErrorUncaught ==
    /\ pc' = "crashed"
    /\ UNCHANGED <<system, after_queue, handed, writers, last_call>>

\* lines 256-258: except json.JSONDecodeError: the error is logged and the loop
\* goes on with the next line
ExceptJSONDecodeError ==
    /\ pc' = "tail"
    /\ UNCHANGED <<system, after_queue, handed, writers, last_call>>

\* lines 251-259: readline, json.loads, process_log_entry, sleep(0.1)
MonitorRead ==
    /\ pc = "read"
    /\ IF position < Len(content[newest_file])
       THEN LET line == content[newest_file][position + 1] IN
            /\ position' = position + 1
            /\ late' = IF running THEN late ELSE Append(late, "readline")
            /\ IF ~line.json
               THEN ExceptJSONDecodeError
               ELSE /\ handed' = Append(handed, line.value)
                    /\ IF EventRaises(line.value)
                       THEN \* not a JSONDecodeError: the exception ends the thread
                            /\ pc' = "crashed"
                            /\ UNCHANGED <<system, after_queue, writers, last_call>>
                       ELSE /\ process_log_entry(line.value, MonitorThread)
                            /\ pc' = "tail"
       ELSE /\ pc' = "tail"
            /\ UNCHANGED <<position, system, after_queue, handed, writers, last_call,
                           late>>
    /\ UNCHANGED <<fs, running, tree, view, dragging, focused_body, newest_file, start>>

Monitor == MonitorLoop \/ MonitorList \/ MonitorOpen \/ MonitorTail \/ MonitorRead

\* ------------------------------------------------------------- the event loop
\* The event loop runs the oldest callback queued with after(0, ...).
\* draw_system draws on the canvas, which the model leaves out.
RunAfter ==
    /\ running
    /\ after_queue # <<>>
    /\ after_queue' = Tail(after_queue)
    /\ IF Head(after_queue) = "update_body_list"
       THEN update_body_list
       ELSE UNCHANGED tree
    /\ UNCHANGED <<fs, system, running, view, dragging, focused_body, monitor, handed,
                   writers, last_call>>

\* on_closing: the flag is unset and the window destroyed, which ends the loop
on_closing ==
    /\ running
    /\ running' = FALSE
    /\ UNCHANGED <<fs, system, after_queue, tree, view, dragging, focused_body, monitor,
                   handed, writers, last_call>>

\* ------------------------------------------------------------- the view
\* the positions of the pointer on the canvas
Pointer == {<<x, 2 * x>> : x \in 0..MaxPointer}

start_drag(x, y) ==
    /\ running
    /\ drag_start_x' = x
    /\ drag_start_y' = y
    /\ is_dragging' = TRUE
    /\ UNCHANGED <<fs, system, running, after_queue, tree, view, inputs, focused_body,
                   monitor, handed, writers, last_call>>

\* a motion handler that does not move the drag origin to the pointer
drag_keeps_origin(x, y) ==
    /\ running
    /\ inputs < MaxInputs
    /\ inputs' = inputs + 1
    /\ IF is_dragging
       THEN /\ center_x' = center_x + (x - drag_start_x)
            /\ center_y' = center_y + (y - drag_start_y)
            /\ last_call' = <<>>
       ELSE UNCHANGED <<center_x, center_y, last_call>>
    /\ UNCHANGED <<fs, system, running, after_queue, tree, zoom, animation_time,
                   drag_start_x, drag_start_y, is_dragging, focused_body, monitor,
                   handed, writers>>

drag(x, y) ==
    /\ running
    /\ inputs < MaxInputs
    /\ inputs' = inputs + 1
    /\ IF is_dragging
       THEN /\ center_x' = center_x + (x - drag_start_x)
            /\ center_y' = center_y + (y - drag_start_y)
            /\ drag_start_x' = x
            /\ drag_start_y' = y
            /\ last_call' = <<>>
       ELSE UNCHANGED <<center_x, center_y, drag_start_x, drag_start_y, last_call>>
    /\ UNCHANGED <<fs, system, running, after_queue, tree, zoom, animation_time,
                   is_dragging, focused_body, monitor, handed, writers>>

end_drag ==
    /\ running
    /\ is_dragging' = FALSE
    /\ UNCHANGED <<fs, system, running, after_queue, tree, view, drag_start_x,
                   drag_start_y, inputs, focused_body, monitor, handed, writers,
                   last_call>>

\* a call that also advances the animation clock
GetBodyPositionCallTicks(id) ==
    /\ running
    /\ id \in Keys(bodies)
    /\ last_call' = <<id, BodyPosition(Lookup(bodies, id))>>
    /\ animation_time' = IF animation_time < MaxTime THEN animation_time + 1
                         ELSE animation_time
    /\ UNCHANGED <<fs, system, running, after_queue, tree, center_x, center_y, zoom,
                   dragging, focused_body, monitor, handed, writers>>

\* a call of get_body_position(body) by the event loop, and what it returned
GetBodyPositionCall(id) ==
    /\ running
    /\ id \in Keys(bodies)
    /\ last_call' = <<id, BodyPosition(Lookup(bodies, id))>>
    /\ UNCHANGED <<fs, system, running, after_queue, tree, view, dragging, focused_body,
                   monitor, handed, writers>>

\* center_on_body(body); a RecursionError out of get_body_position leaves it
\* before the pan offset is assigned
center_on_body(body) ==
    LET p == BodyPosition(body) IN
    IF p.ok
    THEN /\ center_x' = winfo_width \div 2 - p.x
         /\ center_y' = winfo_height \div 2 - p.y
         /\ last_call' = <<>>
    ELSE /\ UNCHANGED <<center_x, center_y>>
         /\ last_call' = <<body.body_id, p>>

\* on_body_select with row i of the tree selected; the row's tag is its body_id
on_body_select(i) ==
    /\ running
    /\ i \in 1..Len(tree)
    /\ inputs < MaxInputs
    /\ inputs' = inputs + 1
    /\ LET body_id == tree[i].iid IN
       IF body_id # 0 /\ body_id \in Keys(bodies)
       THEN /\ focused_body' = Some(Lookup(bodies, body_id))
            /\ center_on_body(Lookup(bodies, body_id))
       ELSE UNCHANGED <<focused_body, center_x, center_y, last_call>>
    /\ UNCHANGED <<fs, system, running, after_queue, tree, zoom, animation_time,
                   drag_start_x, drag_start_y, is_dragging, monitor, handed, writers>>

\* zoom_canvas: the scroll wheel doubles or halves the zoom factor
zoom_canvas(up) ==
    /\ running
    /\ IF up THEN zoom * 2 <= MaxZoom ELSE zoom > 1
    /\ zoom' = IF up THEN zoom * 2 ELSE zoom \div 2
    /\ last_call' = <<>>
    /\ UNCHANGED <<fs, system, running, after_queue, tree, center_x, center_y,
                   animation_time, dragging, focused_body, monitor, handed, writers>>

\* update_animation: the animation clock advances by a tick and the system is
\* drawn again
update_animation ==
    /\ running
    /\ animation_time < MaxTime
    /\ animation_time' = animation_time + 1
    /\ last_call' = <<>>
    /\ UNCHANGED <<fs, system, running, after_queue, tree, center_x, center_y, zoom,
                   dragging, focused_body, monitor, handed, writers>>

\* The events delivered in ViewSpec.
Events == {StarA, PlanetB, StarZero, MoonC, PlanetOfZero, SelfParent}

\* The monitor thread reads a line that is JSON of the event `data` and calls
\* process_log_entry (lines 251-255); the journal file is left out.
Deliver(data) ==
    /\ running
    /\ Len(handed) < MaxEvents
    /\ Len(after_queue) + 2 <= MaxQueue
    /\ handed' = Append(handed, Obj(data))
    /\ process_log_entry(Obj(data), MonitorThread)
    /\ UNCHANGED <<fs, running, tree, view, dragging, focused_body, monitor>>

ViewNext ==
    \/ \E data \in Events : Deliver(data)
    \/ RunAfter
    \/ \E p \in Pointer : start_drag(p[1], p[2])
    \/ \E p \in Pointer : drag(p[1], p[2])
    \/ end_drag
    \/ \E id \in Keys(bodies) : GetBodyPositionCall(id)
    \/ \E i \in 1..Len(tree) : on_body_select(i)
    \/ \E up \in BOOLEAN : zoom_canvas(up)
    \/ update_animation

\* The view and the system model, with the journal left out: any sequence of
\* events reaches process_log_entry.
ViewSpec == Init /\ [][ViewNext]_vars


Next ==
    \/ \E f \in Files : CreateFile(f)
    \/ \E f \in Files, line \in Lines : AppendLine(f, line)
    \/ \E f \in Files : RemoveFile(f)
    \/ Monitor
    \/ RunAfter
    \/ on_closing

Spec == Init /\ [][Next]_vars

\* The monitor thread is an operating-system thread: it is scheduled again and
\* again while it has a step to take.
FairSpec == Spec /\ WF_vars(Monitor)

\* ------------------------------------------------------------- the watcher
\* the lines read from the open file so far
Consumed ==
    IF newest_file = NoFile THEN <<>>
    ELSE SubSeq(content[newest_file], start + 1, position)
Tailing(f) == pc \in {"tail", "read"} /\ newest_file = f
Newer(g, f) == g \in exists /\ mtime[g] > mtime[f]
IsJson(line) == line.json
Values(lines) == [i \in 1..Len(lines) |-> lines[i].value]
\* a line that is JSON of an object with an event field
ValidEventLine(line) == line.json /\ ~EventRaises(line.value)

\* C1: self.bodies and self.stars are never written in the monitor thread, only
\* by the event loop.
C1_NoWriteInMonitorThread == MonitorThread \notin writers

\* C2: a line that is not JSON is skipped and does not stop the stream: the
\* values handed to process_log_entry are those of all the JSON lines read, in
\* order, whatever malformed lines lie between them; reading a malformed line
\* leaves the thread in its reading loop, and the thread never ends on one.
C2_MalformedLineSkipped ==
    /\ [](handed = Values(SelectSeq(Consumed, IsJson)))
    /\ [](pc = "crashed" => position > start /\ content[newest_file][position].json)
    /\ [][(pc = "read" /\ position' = position + 1
             /\ ~content[newest_file][position + 1].json)
          => (pc' = "tail" /\ handed' = handed)]_vars

\* two valid event lines with a malformed line between them have been read, and
\* both events handed over
C2_Witness ==
    /\ \E i, j, k \in 1..Len(Consumed) :
          /\ i < j /\ j < k
          /\ ValidEventLine(Consumed[i])
          /\ ~Consumed[j].json
          /\ ValidEventLine(Consumed[k])
    /\ Len(handed) = 2
    /\ pc = "tail"

\* C3: while the watcher tails F and the flag is set, a newer file G makes it
\* leave F and read G (unless G has gone or F has become the newer one again).
C3_SwitchesToNewerFile ==
    \A f, g \in Files :
        (Tailing(f) /\ Newer(g, f) /\ running)
            ~> (Tailing(g) \/ ~running \/ ~Newer(g, f) \/ pc = "crashed")

\* ------------------------------------------------------------- the system model
IsScan(v) == v[1] = "obj" /\ "event" \in DOMAIN v[2] /\ v[2].event = Str("Scan")
\* a Scan event whose record is built without an exception
Built(v) == IsScan(v) /\ ~BuildRaises(v[2])
\* a Scan event whose construction raises inside the try block
Dropped(v) == IsScan(v) /\ BuildRaises(v[2])
BodyIdOf(v) == Get(v[2], "BodyID", Num(0))[2]
ScanIdx == {i \in 1..Len(handed) : IsScan(handed[i])}
BuiltIdx == {i \in 1..Len(handed) : Built(handed[i])}
BuiltIdxOf(id) == {i \in BuiltIdx : BodyIdOf(handed[i]) = id}
FirstBuilt(id) == CHOOSE i \in BuiltIdxOf(id) : \A j \in BuiltIdxOf(id) : i <= j
LastBuilt(id) == CHOOSE i \in BuiltIdxOf(id) : \A j \in BuiltIdxOf(id) : j <= i

\* C4 as stated: the mapping holds exactly one record for each distinct BodyID of
\* the Scan events processed.
C4_OneRecordPerScannedId ==
    /\ Len(bodies) = Cardinality(Keys(bodies))
    /\ Keys(bodies) = {BodyIdOf(handed[i]) : i \in ScanIdx}

\* C4 amended: the mapping holds exactly one record for each identifier of a Scan
\* event that was built without raising (0 for an event without BodyID); the
\* record is created, after those already there, on the first such scan, holds
\* the data of the most recent one, and the key set only grows.
C4_OneRecordPerBuiltScan ==
    /\ [](/\ Len(bodies) = Cardinality(Keys(bodies))
          /\ Keys(bodies) = {BodyIdOf(handed[i]) : i \in BuiltIdx}
          /\ \A id \in Keys(bodies) :
                Lookup(bodies, id) = CelestialBody(handed[LastBuilt(id)][2])
          /\ \A i, j \in 1..Len(bodies) :
                i < j => FirstBuilt(bodies[i].body_id) < FirstBuilt(bodies[j].body_id))
    /\ [][Keys(bodies) \subseteq Keys(bodies')]_vars

\* identifier 1 was scanned as a star and then again as a planet: one record,
\* the later one
C4_Witness ==
    /\ \E i, j \in 1..Len(handed) :
          i < j /\ handed[i] = Obj(StarA) /\ handed[j] = Obj(PlanetOfZero)
    /\ Len(bodies) = 1
    /\ bodies[1].name = "Planet A"

\* the nearest ancestor named by the Parents list of a Scan event
NearestAncestor(data) ==
    IF "Parents" \notin DOMAIN data \/ data.Parents[2] = <<>> THEN None
    ELSE Some(data.Parents[2][1][2])

\* C5: the parent identifier of a stored record is the nearest ancestor named by
\* the Parents list of the scan it was built from, and None without one; after
\* the star scan and the planet scan the mapping holds two records, the planet's
\* parent being the star.
C5_ParentIsNearestAncestor ==
    /\ \A id \in Keys(bodies) :
          Lookup(bodies, id).parent_id = NearestAncestor(handed[LastBuilt(id)][2])
    /\ handed = <<Obj(StarA), Obj(PlanetB)>> =>
          /\ Len(bodies) = 2
          /\ bodies[1].type = "Star"
          /\ bodies[2].type = "Planet"
          /\ bodies[2].parent_id = Some(bodies[1].body_id)

\* a moon whose Parents list names a planet and then a star: its parent is the planet
C5_Witness ==
    /\ handed = <<Obj(StarA), Obj(PlanetB), Obj(MoonC)>>
    /\ Len(MoonC.Parents[2]) = 2
    /\ Lookup(bodies, 3).parent_id = Some(2)

\* ------------------------------------------------------------- position resolution
Origin == Returned(winfo_width \div 2 + center_x, winfo_height \div 2 + center_y)
HasParentInMapping(b) == b.parent_id # None /\ b.parent_id[1] \in Keys(bodies)
ParentBody(b) == Lookup(bodies, b.parent_id[1])
OffsetNow(b) == calculate_position(b, animation_time, zoom)
\* the call for b returns the position of b's parent plus b's offset, and raises
\* when the call for the parent does
ComposesParent(b) ==
    LET r == BodyPosition(b)
        parent == BodyPosition(ParentBody(b))
        offset == OffsetNow(b)
    IN /\ r.ok => parent.ok /\ r = Returned(parent.x + offset[1], parent.y + offset[2])
       /\ ~parent.ok => ~r.ok

\* C6 as stated: a body whose parent identifier is in the mapping is at its
\* parent's position plus its own offset, the parent being body 0 included.
C6_ParentPlusOffset ==
    \A i \in 1..Len(bodies) :
        HasParentInMapping(bodies[i]) => ComposesParent(bodies[i])

\* C6 amended: for a body whose parent identifier is not 0 and is in the mapping,
\* the call, when it returns, returns its parent's position plus its own offset
\* (it raises when the call for the parent does); a body whose parent identifier
\* is 0 is at the canvas centre plus the pan offset, without its offset, also
\* when body 0 is in the mapping.
C6_ParentPlusOffsetUnlessZero ==
    \A i \in 1..Len(bodies) :
        HasParentInMapping(bodies[i]) =>
            IF bodies[i].parent_id = Some(0)
            THEN BodyPosition(bodies[i]) = Origin
            ELSE ComposesParent(bodies[i])

\* star, planet and moon are in the mapping; the moon is resolved through the
\* planet, which is itself away from the star
C6_Witness ==
    /\ Keys(bodies) = {1, 2, 3}
    /\ Lookup(bodies, 3).parent_id = Some(2)
    /\ Lookup(bodies, 2).parent_id = Some(1)
    /\ BodyPosition(Lookup(bodies, 3)).ok
    /\ BodyPosition(Lookup(bodies, 2)) # BodyPosition(Lookup(bodies, 1))
    /\ BodyPosition(Lookup(bodies, 3)) # BodyPosition(Lookup(bodies, 2))
    /\ animation_time > 0
    /\ center_x # 0

Zooms == 1..MaxZoom
Times == 0..MaxTime
Unanchored(b) ==
    b.parent_id = None \/ b.parent_id = Some(0) \/ b.parent_id[1] \notin Keys(bodies)

\* C7: a body with no parent, parent 0 or a parent that is not in the mapping is
\* at the canvas centre plus the pan offset, returned and not raised, whatever
\* the zoom and the animation time.
C7_RootAtPannedCentre ==
    \A i \in 1..Len(bodies) :
        Unanchored(bodies[i]) =>
            \A z \in Zooms, t \in Times :
                get_body_position(bodies, bodies[i], center_x, center_y, z, t, 1)
                    = Returned(winfo_width \div 2 + center_x,
                               winfo_height \div 2 + center_y)

\* a planet with an orbit whose parent was never scanned, under a non-zero pan
C7_Witness ==
    /\ \E i \in 1..Len(bodies) :
          /\ bodies[i].parent_id \notin {None, Some(0)}
          /\ bodies[i].parent_id[1] \notin Keys(bodies)
          /\ bodies[i].semi_major_axis > 0
    /\ center_x # 0
    /\ center_y # 0

\* C8: a call of get_body_position leaves the mapping, the star list, the pan
\* offset, the zoom and the animation clock as they were, and a call for the
\* same body with nothing changed since returns what the first returned.
C8_PositionCallPure ==
    [][(last_call' # <<>> /\ last_call' # last_call) =>
          /\ UNCHANGED <<bodies, stars, center_x, center_y, zoom, animation_time>>
          /\ (last_call # <<>> /\ last_call[1] = last_call'[1]) =>
                last_call'[2] = last_call[2]]_vars

\* a call has returned the position of an orbiting body under a non-zero pan
C8_Witness ==
    /\ last_call # <<>>
    /\ last_call[2].ok
    /\ HasParentInMapping(Lookup(bodies, last_call[1]))
    /\ last_call[2] # Origin
    /\ center_x # 0

\* ------------------------------------------------------------- dropped events
\* the mapping and the star list after the events of seq, those that were built
RECURSIVE ReplayBodies(_)
ReplayBodies(seq) ==
    IF seq = <<>> THEN <<>>
    ELSE LET d == ReplayBodies(SubSeq(seq, 1, Len(seq) - 1))
             v == seq[Len(seq)]
         IN IF Built(v) THEN DictSet(d, BodyIdOf(v), CelestialBody(v[2])) ELSE d
RECURSIVE ReplayStars(_)
ReplayStars(seq) ==
    IF seq = <<>> THEN <<>>
    ELSE LET l == ReplayStars(SubSeq(seq, 1, Len(seq) - 1))
             v == seq[Len(seq)]
         IN IF Built(v) /\ "StarType" \in DOMAIN v[2] THEN Append(l, BodyIdOf(v)) ELSE l

\* C9: a Scan event whose construction raises is dropped: the step leaves the
\* mapping and the star list as they were and the thread in its reading loop,
\* and the events after it are processed: the mapping and the star list are
\* those of the built events among all the JSON lines read.
C9_FailedScanDropped ==
    /\ [][(handed' # handed /\ Dropped(handed'[Len(handed')])) =>
             (bodies' = bodies /\ stars' = stars /\ pc' = "tail")]_vars
    /\ [](/\ handed = Values(SelectSeq(Consumed, IsJson))
          /\ bodies = ReplayBodies(handed)
          /\ stars = ReplayStars(handed))

\* a scan that raised was followed by one that was built and is in the mapping
C9_Witness ==
    /\ \E i, j \in 1..Len(handed) :
          /\ i < j
          /\ Dropped(handed[i])
          /\ Built(handed[j])
          /\ BodyIdOf(handed[j]) \in Keys(bodies)
    /\ pc = "tail"

\* a Scan event whose fields, those it has, all convert
WellTyped(data) == \A k \in FloatFields(data) \cap DOMAIN data : ~FloatRaises(data[k])

\* C10: a Scan event that lacks some of its fields still produces a record, the
\* missing fields defaulted.
C10_MissingFieldsDefaulted ==
    \A i \in ScanIdx :
        WellTyped(handed[i][2]) => BodyIdOf(handed[i]) \in Keys(bodies)

\* ------------------------------------------------------------- the watcher's life
\* the polling thread is inside monitor_logs
Polling == pc \in {"loop", "list", "open", "tail", "read"}

\* C11: no input is fatal to the watcher: while the shutdown flag is set the
\* polling thread is inside its loop, whatever the directory holds and whatever
\* lines were appended.
C11_NoInputIsFatal == running => Polling

\* the lines appended to the open file since it was opened
Appended == IF newest_file = NoFile THEN <<>>
            ELSE SubSeq(content[newest_file], start + 1, Len(content[newest_file]))

\* C12: the events handed to process_log_entry are the parseable lines appended
\* to the tailed file, in file order: what was handed over is the parseable
\* lines read so far, and while the flag is set every line appended is
\* eventually read, so that no event is lost.
C12_DeliveredInFileOrder ==
    /\ [](handed = Values(SelectSeq(Consumed, IsJson)))
    /\ \A n \in 1..MaxFsOps :
          (pc \in {"tail", "read"} /\ Len(Appended) >= n)
              ~> (Len(Consumed) >= n \/ ~running)

\* ------------------------------------------------------------- shutdown
IsOpen(op) == op = "open"
IsReadline(op) == op = "readline"
Ended == pc \in {"done", "crashed"}

\* C13 as stated: once the flag is unset the polling thread eventually leaves
\* both loops, having read at most one further line and opened no further file.
C13_NoFileOpenedAfterClose ==
    /\ [](Len(SelectSeq(late, IsReadline)) <= 1 /\ SelectSeq(late, IsOpen) = <<>>)
    /\ ~running ~> Ended

\* C13 amended: once the flag is unset the polling thread eventually leaves both
\* loops, after at most one further file operation: it reads one further line,
\* or it opens the file it had chosen before the flag was unset and reads no
\* line of it.
C13_AtMostOneOperationAfterClose ==
    /\ [](Len(late) <= 1)
    /\ [](SelectSeq(late, IsOpen) # <<>> => position = start)
    /\ ~running ~> Ended

\* the flag was unset while the thread was about to read; it read one further
\* line, handed it over and left both loops
C13_Witness ==
    /\ ~running
    /\ pc = "done"
    /\ late = <<"readline">>
    /\ handed # <<>>

\* ------------------------------------------------------------- a period of zero
\* get_body_position(b) at animation time t, the rest of the state as it is
BodyPositionAt(b, t) == get_body_position(bodies, b, center_x, center_y, zoom, t, 1)

\* C14: the offset of a body whose orbital period is 0 is a pair of numbers, the
\* same at every animation time under every zoom; when its parent is in the
\* mapping its resolved position stays, at every animation time, at that one
\* offset from wherever its parent is then.
C14_StaticWhenPeriodZero ==
    \A i \in 1..Len(bodies) :
        bodies[i].orbital_period = 0 =>
            /\ \A z \in Zooms, t \in Times :
                  /\ calculate_position(bodies[i], t, z) \in Int \X Int
                  /\ calculate_position(bodies[i], t, z)
                         = calculate_position(bodies[i], 0, z)
            /\ (HasParentInMapping(bodies[i]) /\ bodies[i].parent_id # Some(0)) =>
                  \A t \in Times :
                      LET r == BodyPositionAt(bodies[i], t)
                          parent == BodyPositionAt(ParentBody(bodies[i]), t)
                          offset == calculate_position(bodies[i], 0, zoom)
                      IN r.ok => r = Returned(parent.x + offset[1], parent.y + offset[2])

\* a moon of period 0 on an orbit around a planet that is itself moving, after
\* the animation clock has advanced
C14_Witness ==
    /\ \E i \in 1..Len(bodies) :
          /\ bodies[i].orbital_period = 0
          /\ bodies[i].semi_major_axis > 0
          /\ HasParentInMapping(bodies[i])
          /\ ParentBody(bodies[i]).orbital_period > 0
          /\ HasParentInMapping(ParentBody(bodies[i]))
          /\ BodyPosition(bodies[i]).ok
          /\ BodyPositionAt(ParentBody(bodies[i]), 0) # BodyPosition(ParentBody(bodies[i]))
    /\ animation_time > 0

\* ------------------------------------------------------------- selection
CanvasCentre == Returned(winfo_width \div 2, winfo_height \div 2)
\* row i of the tree names a body that on_body_select centres the view on
Selectable(i) == tree[i].iid # 0 /\ tree[i].iid \in Keys(bodies)
\* get_body_position(b) in the state a step leads to
BodyPositionAfter(b) ==
    get_body_position(bodies', b, center_x', center_y', zoom', animation_time', 1)

\* C15: selecting a body centres the view on it: right after on_body_select has
\* called center_on_body(b), whatever the pan offset was, get_body_position(b) is
\* the canvas centre; so selecting a body whose selection was the latest change
\* of the pan offset leaves the pan offset as it is.
C15_SelectionCentresBody ==
    [][\A i \in 1..Len(tree) :
          (on_body_select(i) /\ Selectable(i)
              /\ BodyPosition(Lookup(bodies, tree[i].iid)).ok) =>
              /\ BodyPositionAfter(Lookup(bodies, tree[i].iid)) = CanvasCentre
              /\ BodyPosition(Lookup(bodies, tree[i].iid)) = CanvasCentre =>
                    (center_x' = center_x /\ center_y' = center_y)]_vars

\* ------------------------------------------------------------- the display tree
\* update_body_list is the callback the event loop runs in this step
RunsUpdateBodyList ==
    /\ running
    /\ after_queue # <<>>
    /\ Head(after_queue) = "update_body_list"
    /\ after_queue' = Tail(after_queue)
\* t has one row for each record of d
OneRowPerBody(t, d) == Len(t) = Len(d) /\ Iids(t) = Keys(d)
\* every row that has a parent comes after the row of its parent
ParentRowFirst(t) ==
    \A i \in 1..Len(t) :
        t[i].parent # None => \E j \in 1..(i - 1) : t[j].iid = t[i].parent[1]

\* C16: after update_body_list has run, the display tree has exactly one row for
\* each body of the mapping, and every row with a parent comes after the row of
\* its parent.
C16_TreeListsEveryBody ==
    [][RunsUpdateBodyList => (OneRowPerBody(tree', bodies') /\ ParentRowFirst(tree'))]_vars

\* ------------------------------------------------------------- parent cycles
\* C17: get_body_position returns a position, and raises nothing, for every body
\* of the mapping, parent identifiers that form a cycle included.
C17_PositionAlwaysReturned ==
    \A i \in 1..Len(bodies) : BodyPosition(bodies[i]).ok

\* ------------------------------------------------------------- the star list
StarIds == {stars[i] : i \in 1..Len(stars)}
IsStarRecord(id) == id \in Keys(bodies) /\ Lookup(bodies, id).type = "Star"

\* C18: the star list holds no identifier twice, and holds an identifier exactly
\* when the mapping has a record of kind Star under it.
C18_StarListMatchesMapping ==
    /\ Len(stars) = Cardinality(StarIds)
    /\ \A id \in StarIds \cup Keys(bodies) : id \in StarIds <=> IsStarRecord(id)

\* ------------------------------------------------------------- panning
PanUnchanged == center_x' = center_x /\ center_y' = center_y

\* C19: the pan offset changes only in a motion event of a drag in progress or
\* in a selection.  A press moves the drag origin to the pointer and leaves the
\* pan offset; a motion event while is_dragging is false leaves the pan offset;
\* a motion event of a drag adds to the pan offset the pointer's displacement
\* from the drag origin and moves the drag origin to the pointer, so that the
\* pan offset minus the latest pointer position is the same from the press on,
\* and the total change from the press is the displacement from the press
\* position to the latest motion position.
C19_PanFollowsPointer ==
    [][/\ ~PanUnchanged =>
             \/ \E p \in Pointer : drag(p[1], p[2]) /\ is_dragging
             \/ \E i \in 1..Len(tree) : on_body_select(i) /\ Selectable(i)
       /\ \A p \in Pointer :
             /\ start_drag(p[1], p[2]) =>
                   (PanUnchanged /\ drag_start_x' = p[1] /\ drag_start_y' = p[2])
             /\ (drag(p[1], p[2]) /\ ~is_dragging) => PanUnchanged
             /\ (drag(p[1], p[2]) /\ is_dragging) =>
                   /\ center_x' - p[1] = center_x - drag_start_x
                   /\ center_y' - p[2] = center_y - drag_start_y
                   /\ drag_start_x' = p[1]
                   /\ drag_start_y' = p[2]]_vars

\* a press at (MaxPointer, 2 * MaxPointer), a motion to (0, 0) and a release have
\* moved the pan offset by the displacement; a motion after the release, and no
\* selection, have left it there
C19_Witness ==
    /\ ~is_dragging
    /\ inputs = 2
    /\ focused_body = None
    /\ drag_start_x = 0
    /\ drag_start_y = 0
    /\ center_x = -MaxPointer
    /\ center_y = -2 * MaxPointer

====
